---- MODULE Spec2Model ----
(***************************************************************************)
(* Asset registry of projeto_final_bd_nosql.py: one MongoDB collection of  *)
(* asset documents and the import / insert / edit / delete functions that  *)
(* write to it.                                                            *)
(*                                                                         *)
(* The collection is a sequence of documents in natural (insertion) order. *)
(* The store keeps no unique index on asset_id; find_one, update_one and   *)
(* delete_one act on the first document matching the filter.  Every store  *)
(* call may raise; a call that raises has no effect, except insert_many    *)
(* (ordered), which may have inserted a proper prefix of its batch.        *)
(***************************************************************************)
EXTENDS Integers, Sequences, FiniteSets, TLC

\* ---- bounds of the model ------------------------------------------------
MaxId == 3         \* documents stored during one run (_id values 1..MaxId)
MaxHist == 3       \* longest movement_history explored

\* ---- inputs ---------------------------------------------------------------
NumDocs == {0, 1, 2}          \* num_docs passed to inserir_documento_extra
NumRegistros == {0, 1, 2}     \* num_registros passed to the import

\* ---- values -------------------------------------------------------------
None == "None"
Truthy(x) == x # None /\ x # ""

RowP1 == [product_id |-> "P1", product_name |-> "Produto 1", category |-> "Bebidas",
          brand |-> "Marca A", description |-> "desc 1"]

RowP2 == [product_id |-> "P2", product_name |-> "Produto 2", category |-> "Eletrônico",
          brand |-> "Marca B", description |-> "desc 2"]

Csv(exists, rows) == [exists |-> exists, rows |-> rows]

\* The CSV files offered to the import: a missing file, a file with a header
\* only, and files whose rows carry pairwise distinct product_id values.
CsvFiles == {Csv(FALSE, <<>>), Csv(TRUE, <<>>), Csv(TRUE, <<RowP1>>), Csv(TRUE, <<RowP1, RowP2>>)}

\* new_location / new_status arguments of an edit (None: not given)
Locations == {None, "Reitoria"}

Statuses == {None, "Desativado"}

NewAssetId(n) == "NEWASSET" \o ToString(n)

\* asset_id arguments of deletes; each is carried by no document in some
\* reachable states and by one or two documents in others
AssetIds == {"P1", NewAssetId(2)}

\* asset_id arguments of edits
EditIds == {NewAssetId(2)}

Now == "now"

EmptyDoc == [x \in {} |-> x]

\* collection: the documents of the store; nextId: the next _id; last: the last
\* call made; main: position and local variables of the __main__ script
VARIABLES collection, nextId, last, main

vars == <<collection, nextId, last, main>>

\* ---- the store ------------------------------------------------------------
Matches(c, asset_id) == {i \in 1..Len(c) : c[i].asset_id = asset_id}

Min(S) == CHOOSE m \in S : \A n \in S : m <= n

\* index of the document find_one / update_one / delete_one select, 0 if none
FirstMatch(c, asset_id) == IF Matches(c, asset_id) = {} THEN 0 ELSE Min(Matches(c, asset_id))

count_documents(c) == Len(c)

\* every stored document gets a fresh _id: the number of documents stored so far + 1
insert_many(c, docs, firstId) ==
    c \o [i \in 1..Len(docs) |-> ("_id" :> (firstId + i - 1)) @@ docs[i]]

delete_many_keeps(c) == c

delete_many(c) == <<>>

Remove(c, i) == SubSeq(c, 1, i - 1) \o SubSeq(c, i + 1, Len(c))

delete_one_head(c, asset_id) ==
    IF c = <<>> THEN c
    ELSE IF FirstMatch(c, asset_id) = 0 THEN Tail(c) ELSE Remove(c, FirstMatch(c, asset_id))

delete_one(c, asset_id) ==
    IF FirstMatch(c, asset_id) = 0 THEN c ELSE Remove(c, FirstMatch(c, asset_id))

ApplySet(doc, update_fields) ==
    [f \in DOMAIN doc |-> IF f \in DOMAIN update_fields THEN update_fields[f] ELSE doc[f]]

ApplyPush_front(doc, movement_entry) ==
    [doc EXCEPT !["movement_history"] = <<movement_entry>> \o @]

ApplyPush(doc, movement_entry) ==
    [doc EXCEPT !["movement_history"] = Append(@, movement_entry)]

update_one_all(c, asset_id, update_fields, movement_entry) ==
    [i \in 1..Len(c) |-> IF c[i].asset_id = asset_id
                          THEN ApplyPush(ApplySet(c[i], update_fields), movement_entry)
                          ELSE c[i]]

update_one(c, asset_id, update_fields, movement_entry) ==
    IF FirstMatch(c, asset_id) = 0 THEN c
    ELSE [c EXCEPT ![FirstMatch(c, asset_id)] =
                ApplyPush(ApplySet(@, update_fields), movement_entry)]

\* ---- importar_csv_para_mongodb --------------------------------------------
ImportDoc(row) ==
    [asset_id |-> row.product_id,
     asset_name |-> row.product_name,
     category |-> row.category,
     brand |-> row.brand,
     description |-> row.description,
     location |-> "Armazenagem Principal",
     status |-> "Em Uso",
     acquisition_date |-> "2023-01-01",
     movement_history |-> <<[date |-> "2023-01-01 00:00:00",
                             type |-> "Aquisição",
                             from_location |-> "Fornecedor",
                             to_location |-> "Armazenagem Principal",
                             responsible |-> "Sistema Inicial"]>>]

df_sample_all(df, num_registros) == df

df_sample(df, num_registros) ==
    IF Len(df) > num_registros THEN SubSeq(df, 1, num_registros) ELSE df

ImportDocuments(df, num_registros) ==
    [i \in 1..Len(df_sample(df, num_registros)) |-> ImportDoc(df_sample(df, num_registros)[i])]

\* record of the last call: its arguments, the store call that raised ("none"
\* if none did), whether the exception was caught by the function or escaped
\* to its caller, and the value returned
Call(op, args, raised, outcome, result) ==
    [op |-> op, args |-> args, raised |-> raised, outcome |-> outcome, result |-> result]

importar_csv_para_mongodb(csv, num_registros, fail) ==
    LET args == <<csv, num_registros>>
        documents == ImportDocuments(csv.rows, num_registros)
    IN  IF ~csv.exists
        THEN /\ fail = "none"
             /\ last' = Call("importar", args, "none", "ok", None)
             /\ UNCHANGED <<collection, nextId>>
        ELSE IF documents = <<>>
        THEN /\ fail = "none"
             /\ last' = Call("importar", args, "none", "ok", None)
             /\ UNCHANGED <<collection, nextId>>
        ELSE IF fail = "delete_many"
        THEN /\ last' = Call("importar", args, "delete_many", "caught", None)
             /\ UNCHANGED <<collection, nextId>>
        ELSE /\ IF fail = "insert_many"
                THEN /\ \E k \in 0..(Len(documents) - 1) :
                          /\ collection' = insert_many(delete_many(collection),
                                                       SubSeq(documents, 1, k), nextId)
                          /\ nextId' = nextId + k
                     /\ last' = Call("importar", args, "insert_many", "caught", None)
                ELSE /\ fail = "none"
                     /\ collection' = insert_many(delete_many(collection), documents, nextId)
                     /\ nextId' = nextId + Len(documents)
                     /\ last' = Call("importar", args, "none", "ok", None)

\* any import, as long as the documents it stores stay within MaxId
Importar ==
    /\ last.outcome # "escaped"
    /\ \E csv \in CsvFiles, num_registros \in NumRegistros,
          fail \in {"none", "delete_many", "insert_many"} :
            /\ fail # "delete_many"
                 => nextId + Len(ImportDocuments(csv.rows, num_registros)) - 1 <= MaxId
            /\ importar_csv_para_mongodb(csv, num_registros, fail)
    /\ UNCHANGED main

\* ---- inserir_documento_extra ----------------------------------------------
NewAsset(i, count) ==
    [asset_id |-> NewAssetId(count + 1 + i),
     asset_name |-> "Item Teste " \o ToString(i + 1),
     category |-> "Eletrônico",
     brand |-> "Genérica",
     description |-> "Descrição do Item Teste " \o ToString(i + 1) \o " para demonstração.",
     location |-> "Laboratório 101",
     status |-> "Ativo",
     acquisition_date |-> "2024-05-15",
     movement_history |-> <<[date |-> "2024-05-15 10:00:00",
                             type |-> "Aquisição",
                             from_location |-> "Fornecedor",
                             to_location |-> "Laboratório 101",
                             responsible |-> "Administrador"]>>]

new_assets(c, num_docs) == [j \in 1..num_docs |-> NewAsset(j - 1, count_documents(c))]

InsertedIds(firstId, n) == [i \in 1..n |-> firstId + i - 1]

inserir_documento_extra(num_docs, fail) ==
    LET args == <<num_docs>>
    IN  IF fail = "count_documents"
        THEN /\ num_docs >= 1
             /\ last' = Call("inserir", args, "count_documents", "escaped", None)
             /\ UNCHANGED <<collection, nextId>>
        ELSE IF num_docs = 0
        THEN \* insert_many rejects an empty batch
             /\ fail = "none"
             /\ last' = Call("inserir", args, "insert_many", "caught", <<>>)
             /\ UNCHANGED <<collection, nextId>>
        ELSE /\ IF fail = "insert_many"
                THEN /\ \E k \in 0..(num_docs - 1) :
                          /\ collection' = insert_many(collection,
                                              SubSeq(new_assets(collection, num_docs), 1, k), nextId)
                          /\ nextId' = nextId + k
                     /\ last' = Call("inserir", args, "insert_many", "caught", <<>>)
                ELSE /\ fail = "none"
                     /\ collection' = insert_many(collection,
                                                  new_assets(collection, num_docs), nextId)
                     /\ nextId' = nextId + num_docs
                     /\ last' = Call("inserir", args, "none", "ok", InsertedIds(nextId, num_docs))

Inserir ==
    /\ last.outcome # "escaped"
    /\ \E num_docs \in NumDocs, fail \in {"none", "count_documents", "insert_many"} :
            /\ fail # "count_documents" => nextId + num_docs - 1 <= MaxId
            /\ inserir_documento_extra(num_docs, fail)
    /\ UNCHANGED main

\* ---- editar_documento -------------------------------------------------------
update_fields(new_location, new_status) ==
    (IF Truthy(new_location) THEN "location" :> new_location ELSE EmptyDoc)
    @@ (IF Truthy(new_status) THEN "status" :> new_status ELSE EmptyDoc)

BaseEntry == [date |-> Now, type |-> "Movimentação", responsible |-> "Usuário App"]

StatusLabel(old_status, new_status) ==
    "Atualização de Status: " \o old_status \o " para " \o new_status

GetField_default(c, current_asset, field, default) == default

\* current_asset is the index find_one returned, 0 for no document
GetField(c, current_asset, field, default) ==
    IF current_asset # 0 THEN c[current_asset][field] ELSE default

movement_entry_label(c, asset_id, new_location, new_status) ==
    LET current_asset == FirstMatch(c, asset_id)
    IN  [date |-> Now,
         type |-> IF Truthy(new_status)
                  THEN StatusLabel(GetField(c, current_asset, "status", "Desconhecido"),
                                   new_status)
                  ELSE "Movimentação",
         responsible |-> "Usuário App",
         from_location |-> GetField(c, current_asset, "location", "Desconhecida"),
         to_location |-> IF Truthy(new_location) THEN new_location
                         ELSE GetField(c, current_asset, "location", "Desconhecida")]

movement_entry(c, asset_id, new_location, new_status) ==
    LET current_asset == FirstMatch(c, asset_id)
    IN  IF Truthy(new_location)
        THEN [date |-> Now, type |-> "Movimentação", responsible |-> "Usuário App",
              from_location |-> GetField(c, current_asset, "location", "Desconhecida"),
              to_location |-> new_location]
        ELSE IF Truthy(new_status)
        THEN [date |-> Now,
              type |-> StatusLabel(GetField(c, current_asset, "status", "Desconhecido"),
                                   new_status),
              responsible |-> "Usuário App",
              from_location |-> GetField(c, current_asset, "location", "Desconhecida"),
              to_location |-> GetField(c, current_asset, "location", "Desconhecida")]
        ELSE BaseEntry

\* the edit reaches update_one and the server accepts the update
EditWrites(new_location, new_status, emptySetOk, fail) ==
    /\ fail = "none"
    /\ DOMAIN update_fields(new_location, new_status) # {} \/ emptySetOk

editar_documento(asset_id, new_location, new_status, emptySetOk, fail) ==
    LET args == <<asset_id, new_location, new_status>>
    IN  /\ UNCHANGED nextId
        /\ IF fail = "find_one_location"
           THEN /\ Truthy(new_location)
                /\ last' = Call("editar", args, "find_one", "escaped", None)
                /\ UNCHANGED collection
           ELSE IF fail = "find_one_status"
           THEN /\ Truthy(new_status)
                /\ last' = Call("editar", args, "find_one", "escaped", None)
                /\ UNCHANGED collection
           ELSE IF fail = "update_one"
                   \/ (DOMAIN update_fields(new_location, new_status) = {} /\ ~emptySetOk)
           THEN /\ last' = Call("editar", args, "update_one", "caught", None)
                /\ UNCHANGED collection
           ELSE /\ collection' = update_one(collection, asset_id,
                                     update_fields(new_location, new_status),
                                     movement_entry(collection, asset_id, new_location, new_status))
                /\ last' = Call("editar", args, "none", "ok", None)

Editar ==
    /\ last.outcome # "escaped"
    /\ \E asset_id \in EditIds, new_location \in Locations, new_status \in Statuses :
         \* a server older than 5.0 rejects an empty $set, a newer one accepts it
         \E emptySetOk \in IF Truthy(new_location) \/ Truthy(new_status) THEN {TRUE} ELSE BOOLEAN,
            fail \in {"none", "find_one_location", "find_one_status", "update_one"} :
              /\ (EditWrites(new_location, new_status, emptySetOk, fail)
                    /\ FirstMatch(collection, asset_id) # 0)
                   => Len(collection[FirstMatch(collection, asset_id)].movement_history)
                        < MaxHist
              /\ editar_documento(asset_id, new_location, new_status, emptySetOk, fail)
    /\ UNCHANGED main

\* ---- excluir_documento ------------------------------------------------------
excluir_documento(asset_id, fail) ==
    /\ UNCHANGED nextId
    /\ IF fail = "delete_one"
       THEN /\ last' = Call("excluir", <<asset_id>>, "delete_one", "caught", None)
            /\ UNCHANGED collection
       ELSE /\ collection' = delete_one(collection, asset_id)
            /\ last' = Call("excluir", <<asset_id>>, "none", "ok", None)

Excluir ==
    /\ last.outcome # "escaped"
    /\ \E asset_id \in AssetIds, fail \in {"none", "delete_one"} :
            excluir_documento(asset_id, fail)
    /\ UNCHANGED main

\* ---- the program ------------------------------------------------------------
\* the functions called in any order on a fresh database
Init ==
    /\ collection = <<>>
    /\ nextId = 1
    /\ last = Call("conectar", <<>>, "none", "ok", None)
    /\ main = [pc |-> "none"]

Next == Importar \/ Inserir \/ Editar \/ Excluir

Spec == Init /\ [][Next]_vars


\* ---- queries ------------------------------------------------------------------
\* collection.find({"location": location}): the matching documents in store order
find_all(c, location) == c

find(c, location) == SelectSeq(c, LAMBDA d : d.location = location)

buscar_bens_por_localizacao(location, fail) ==
    /\ UNCHANGED <<collection, nextId>>
    /\ IF fail = "find"
       THEN last' = Call("buscar", <<location>>, "find", "caught", <<>>)
       ELSE last' = Call("buscar", <<location>>, "none", "ok", find(collection, location))

LocationsOf(c) == {c[i].location : i \in 1..Len(c)}

\* {"$group": {"_id": "$location", "count": {"$sum": 1}}}
GroupByLocation(c) ==
    {[_id |-> l, count |-> Cardinality({i \in 1..Len(c) : c[i].location = l})] :
        l \in LocationsOf(c)}

\* {"$sort": {"count": -1}}
SortedByCountAsc(r) == \A i, j \in 1..Len(r) : i < j => r[i].count <= r[j].count

SortedByCount(r) == \A i, j \in 1..Len(r) : i < j => r[i].count >= r[j].count

\* the orders the pipeline may return: every arrangement of the groups that
\* is descending by count (the order among equal counts is not determined)
aggregate(c) ==
    {r \in [1..Cardinality(GroupByLocation(c)) -> GroupByLocation(c)] :
        /\ \A g \in GroupByLocation(c) : \E i \in 1..Len(r) : r[i] = g
        /\ SortedByCount(r)}

contar_bens_por_localizacao(fail) ==
    /\ UNCHANGED <<collection, nextId>>
    /\ IF fail = "aggregate"
       THEN last' = Call("contar", <<>>, "aggregate", "caught", <<>>)
       ELSE \E r \in aggregate(collection) : last' = Call("contar", <<>>, "none", "ok", r)

\* ---- __main__ -----------------------------------------------------------------
NumRegistrosMain == 5000

NumDocsMain == 5

\* what an earlier run of the script on a fresh database and without a CSV
\* file leaves behind: NEWASSET3..NEWASSET5
PriorRun ==
    LET c1 == insert_many(<<>>, new_assets(<<>>, NumDocsMain), 1)
        c2 == update_one(c1, NewAssetId(1), update_fields(None, "Desativado"),
                         movement_entry(c1, NewAssetId(1), None, "Desativado"))
    IN  delete_one(delete_one(c2, NewAssetId(1)), NewAssetId(2))

\* position of the document with this _id, 0 if there is none
IndexOfId(c, id) ==
    IF \E i \in 1..Len(c) : c[i]._id = id
    THEN CHOOSE i \in 1..Len(c) : c[i]._id = id
    ELSE 0

\* find_one({"asset_name": {"$ne": "Item Teste 1"}})
SampleAsset(c) ==
    IF \E i \in 1..Len(c) : c[i].asset_name # "Item Teste 1"
    THEN Min({i \in 1..Len(c) : c[i].asset_name # "Item Teste 1"})
    ELSE 0

\* the script moves on to pc, or stops when the last call let an exception escape
Advance(pc) ==
    [main EXCEPT !.pc = IF last'.outcome = "escaped" THEN "abortado" ELSE pc,
                 !.clean = @ /\ last'.raised = "none"]

\* a store call made by the script itself raises: nothing catches it
MainEscapes(call) ==
    /\ last' = Call("main", <<call>>, call, "escaped", None)
    /\ UNCHANGED <<collection, nextId>>

MainConectar ==
    /\ main.pc = "conectar"
    /\ UNCHANGED <<collection, nextId>>
    /\ \/ /\ last' = Call("conectar", <<>>, "none", "ok", None)
          /\ main' = [main EXCEPT !.pc = "importar"]
       \/ /\ last' = Call("conectar", <<>>, "ping", "caught", None)
          /\ main' = [main EXCEPT !.pc = "fim", !.clean = FALSE]

MainImportar ==
    /\ main.pc = "importar"
    /\ \E fail \in {"none", "delete_many", "insert_many"} :
         importar_csv_para_mongodb(main.csv, NumRegistrosMain, fail)
    /\ main' = Advance("inserir")

MainInserir ==
    /\ main.pc = "inserir"
    /\ \E fail \in {"none", "count_documents", "insert_many"} :
         inserir_documento_extra(NumDocsMain, fail)
    /\ main' = [Advance("editar1") EXCEPT
                  !.inserted_ids = IF last'.outcome = "escaped" THEN <<>> ELSE last'.result]

MainEditar1 ==
    /\ main.pc = "editar1"
    /\ \/ MainEscapes("find_one") /\ main' = Advance("editar2")
       \/ /\ SampleAsset(collection) = 0
          /\ UNCHANGED <<collection, nextId, last>>
          /\ main' = [main EXCEPT !.pc = "editar2"]
       \/ /\ SampleAsset(collection) # 0
          /\ \E fail \in {"none", "find_one_location", "find_one_status", "update_one"} :
               editar_documento(collection[SampleAsset(collection)].asset_id,
                                "Reitoria", "Em Manutenção", TRUE, fail)
          /\ main' = [Advance("editar2") EXCEPT
                        !.sample_asset = collection[SampleAsset(collection)].asset_id]

MainEditar2 ==
    /\ main.pc = "editar2"
    /\ IF main.inserted_ids = <<>>
       THEN /\ UNCHANGED <<collection, nextId, last>>
            /\ main' = [main EXCEPT !.pc = "excluir1"]
       ELSE /\ \/ MainEscapes("find_one")
               \/ /\ IndexOfId(collection, main.inserted_ids[1]) = 0
                  /\ MainEscapes("subscript")
               \/ /\ IndexOfId(collection, main.inserted_ids[1]) # 0
                  /\ \E fail \in {"none", "find_one_status", "update_one"} :
                       editar_documento(
                           collection[IndexOfId(collection, main.inserted_ids[1])].asset_id,
                           None, "Desativado", TRUE, fail)
            /\ main' = Advance("excluir1")

\* excluir_documento(find_one({"_id": inserted_ids[n]})['asset_id'])
MainExcluir(n, pc) ==
    IF Len(main.inserted_ids) < 2
    THEN /\ UNCHANGED <<collection, nextId, last>>
         /\ main' = [main EXCEPT !.pc = pc]
    ELSE /\ \/ MainEscapes("find_one")
            \/ /\ IndexOfId(collection, main.inserted_ids[n]) = 0
               /\ MainEscapes("subscript")
            \/ /\ IndexOfId(collection, main.inserted_ids[n]) # 0
               /\ \E fail \in {"none", "delete_one"} :
                    excluir_documento(
                        collection[IndexOfId(collection, main.inserted_ids[n])].asset_id, fail)
         /\ main' = Advance(pc)

MainExcluir1 == main.pc = "excluir1" /\ MainExcluir(1, "excluir2")

MainExcluir2 == main.pc = "excluir2" /\ MainExcluir(2, "buscar")

MainBuscar ==
    /\ main.pc = "buscar"
    /\ \E fail \in {"none", "find"} : buscar_bens_por_localizacao("Laboratório 101", fail)
    /\ main' = Advance("contar")

MainContar ==
    /\ main.pc = "contar"
    /\ \E fail \in {"none", "aggregate"} : contar_bens_por_localizacao(fail)
    /\ main' = Advance("fim")

\* the script run once, on a fresh database or on what an earlier run left,
\* with any of the CSV files on disk
InitMain ==
    /\ collection \in {<<>>, PriorRun}
    /\ nextId = IF collection = <<>> THEN 1 ELSE NumDocsMain + 1
    /\ last = Call("none", <<>>, "none", "ok", None)
    /\ \E csv \in CsvFiles :
         main = [pc |-> "conectar", csv |-> csv, inserted_ids |-> <<>>,
                 sample_asset |-> None, clean |-> TRUE]

NextMain ==
    \/ MainConectar \/ MainImportar \/ MainInserir \/ MainEditar1 \/ MainEditar2
    \/ MainExcluir1 \/ MainExcluir2 \/ MainBuscar \/ MainContar

SpecMain == InitMain /\ [][NextMain]_vars

\* ---- helpers of the properties ----------------------------------------------
Ids(c) == {c[i]._id : i \in 1..Len(c)}

IsPrefix(s, t) == Len(s) <= Len(t) /\ SubSeq(t, 1, Len(s)) = s

LastEntry(doc) == doc.movement_history[Len(doc.movement_history)]

EditOk(asset_id, new_location, new_status) ==
    Call("editar", <<asset_id, new_location, new_status>>, "none", "ok", None)

\* C1: no two documents of the collection carry the same asset_id.
C1_UniqueAssetIds ==
    \A i, j \in 1..Len(collection) :
        i # j => collection[i].asset_id # collection[j].asset_id

\* C2 (as claimed): every import call that meets no store failure, whatever
\* the source holds, leaves no document that was in the collection before it.
C2_ImportAlwaysDiscards ==
    [][(last'.op = "importar" /\ last'.outcome = "ok")
         => Ids(collection') \cap Ids(collection) = {}]_vars

\* C2 (amended): an import that selects at least one row (the file exists, has
\* a row, and num_registros >= 1) and whose delete_many does not raise leaves
\* no document that was in the collection before it; every other import call
\* leaves the collection exactly as it was.
C2_ImportDiscardsWhenRowsSelected ==
    [][\A csv \in CsvFiles, n \in NumRegistros :
         (last'.op = "importar" /\ last'.args = <<csv, n>>)
           => IF csv.exists /\ Len(csv.rows) >= 1 /\ n >= 1 /\ last'.raised # "delete_many"
              THEN Ids(collection') \cap Ids(collection) = {}
              ELSE collection' = collection]_vars

C2_Witness ==
    /\ last.op = "importar" /\ last.outcome = "ok"
    /\ collection # <<>>
    /\ \A i \in 1..Len(collection) : collection[i]._id > 1

\* C3: no registry operation lets a store failure escape to its caller.
C3_NoFailureEscapes == last.outcome # "escaped"

\* C4: an edit called with neither new_location nor new_status leaves every
\* document of the collection as it was.
C4_EditWithoutFieldsWritesNothing ==
    [][\A id \in EditIds :
         (last'.op = "editar" /\ last'.args = <<id, None, None>>)
           => collection' = collection]_vars

\* C5: a successful edit given new_location X for an existing asset at location
\* Y appends exactly one entry of type "Movimentação" with from_location Y and
\* to_location X, sets the location to X and keeps the earlier entries; the type
\* is the plain movement type also when a new_status comes with it.
C5_EditLocationAppendsMovement ==
    [][\A id \in EditIds, X \in Locations \ {None}, S \in Statuses :
         (last' = EditOk(id, X, S) /\ FirstMatch(collection, id) # 0)
           => LET k == FirstMatch(collection, id)
                  old == collection[k]
                  new == collection'[k]
              IN  /\ Len(collection') = Len(collection)
                  /\ Len(new.movement_history) = Len(old.movement_history) + 1
                  /\ IsPrefix(old.movement_history, new.movement_history)
                  /\ LastEntry(new).type = "Movimentação"
                  /\ LastEntry(new).from_location = old.location
                  /\ LastEntry(new).to_location = X
                  /\ new.location = X
                  /\ \A i \in 1..Len(collection) : i # k => collection'[i] = collection[i]]_vars

C5_Witness ==
    /\ last = EditOk(NewAssetId(2), "Reitoria", "Desativado")
    /\ \E i \in 1..Len(collection) :
         /\ collection[i].asset_id = NewAssetId(2)
         /\ collection[i].location = "Reitoria"
         /\ Len(collection[i].movement_history) = 2
         /\ LastEntry(collection[i]).type = "Movimentação"
         /\ LastEntry(collection[i]).from_location = "Laboratório 101"

\* C6: a successful edit given only new_status S for an existing asset appends
\* exactly one entry whose from_location and to_location are the asset's
\* location and whose type names the prior status and S, sets the status to S
\* and leaves the location as it was.
C6_EditStatusAppendsStatusEntry ==
    [][\A id \in EditIds, S \in Statuses \ {None} :
         (last' = EditOk(id, None, S) /\ FirstMatch(collection, id) # 0)
           => LET k == FirstMatch(collection, id)
                  old == collection[k]
                  new == collection'[k]
              IN  /\ Len(new.movement_history) = Len(old.movement_history) + 1
                  /\ IsPrefix(old.movement_history, new.movement_history)
                  /\ LastEntry(new).from_location = old.location
                  /\ LastEntry(new).to_location = old.location
                  /\ LastEntry(new).type =
                        "Atualização de Status: " \o old.status \o " para " \o S
                  /\ new.status = S
                  /\ new.location = old.location]_vars

C6_Witness ==
    /\ last = EditOk(NewAssetId(2), None, "Desativado")
    /\ \E i \in 1..Len(collection) :
         /\ collection[i].asset_id = NewAssetId(2)
         /\ collection[i].status = "Desativado"
         /\ collection[i].location = "Laboratório 101"
         /\ Len(collection[i].movement_history) = 2
         /\ LastEntry(collection[i]).type = "Atualização de Status: Ativo para Desativado"
         /\ LastEntry(collection[i]).from_location = "Laboratório 101"
         /\ LastEntry(collection[i]).to_location = "Laboratório 101"

\* C7: an edit or a delete addressed to an asset_id that no document carries
\* leaves the collection exactly as it was, whatever the other arguments.
C7_AbsentIdChangesNothing ==
    [][(last'.op \in {"editar", "excluir"} /\ FirstMatch(collection, last'.args[1]) = 0)
         => collection' = collection]_vars

C7_Witness ==
    /\ last.op = "editar" /\ last.outcome = "ok"
    /\ last.args[2] = "Reitoria"
    /\ FirstMatch(collection, last.args[1]) = 0
    /\ collection # <<>>

\* C8: a successful delete of an asset_id that a document carries leaves no
\* document with that asset_id, shrinks the collection by exactly one and keeps
\* all other documents.
C8_DeleteRemovesTheAsset ==
    [][\A id \in AssetIds :
         (last' = Call("excluir", <<id>>, "none", "ok", None) /\ FirstMatch(collection, id) # 0)
           => /\ Matches(collection', id) = {}
              /\ Len(collection') = Len(collection) - 1
              /\ collection' = SelectSeq(collection, LAMBDA d : d.asset_id # id)]_vars

\* C9: every document has at least one movement entry, and the first one is
\* the acquisition entry it was created with.
C9_HistoryStartsWithAcquisition ==
    \A i \in 1..Len(collection) :
        /\ Len(collection[i].movement_history) >= 1
        /\ collection[i].movement_history[1].type = "Aquisição"
        /\ collection[i].movement_history[1].from_location = "Fornecedor"
        /\ collection[i].movement_history[1].date \in
              {"2023-01-01 00:00:00", "2024-05-15 10:00:00"}

C9_Witness ==
    /\ last.op = "editar" /\ last.outcome = "ok"
    /\ \E i \in 1..Len(collection) :
         /\ Len(collection[i].movement_history) >= 2
         /\ collection[i].movement_history[1].type = "Aquisição"
         /\ LastEntry(collection[i]).type # "Aquisição"

\* the pairs (position before, position after) of the documents that a step
\* keeps and whose movement_history it lengthens
Lengthened(c, d) ==
    {p \in (1..Len(c)) \X (1..Len(d)) :
        /\ c[p[1]]._id = d[p[2]]._id
        /\ Len(d[p[2]].movement_history) > Len(c[p[1]].movement_history)}

\* C10: over any single operation the movement_history of a document that is
\* kept is a prefix of its movement_history afterwards; only an edit lengthens
\* a history, and then by exactly one entry on exactly one document.
C10_HistoryAppendOnly ==
    [][/\ \A i \in 1..Len(collection), j \in 1..Len(collection') :
            collection[i]._id = collection'[j]._id
              => IsPrefix(collection[i].movement_history, collection'[j].movement_history)
       /\ Lengthened(collection, collection') # {}
            => /\ last'.op = "editar"
               /\ Cardinality(Lengthened(collection, collection')) = 1
               /\ \A p \in Lengthened(collection, collection') :
                    Len(collection'[p[2]].movement_history)
                      = Len(collection[p[1]].movement_history) + 1]_vars

C10_Witness ==
    /\ last.op = "editar" /\ last.outcome = "ok"
    /\ \E i, j \in 1..Len(collection) :
         /\ collection[i].asset_id = last.args[1]
         /\ Len(collection[i].movement_history) = 2
         /\ i # j
         /\ Len(collection[j].movement_history) = 1

ImportOk(csv, num_registros) == Call("importar", <<csv, num_registros>>, "none", "ok", None)

MinOf(a, b) == IF a <= b THEN a ELSE b

\* c holds exactly the first m rows, each as a freshly imported asset
HoldsFirstRows(c, rows, m) ==
    /\ Len(c) = m
    /\ \A i \in 1..m :
         /\ c[i].asset_id = rows[i].product_id
         /\ c[i].location = "Armazenagem Principal"
         /\ c[i].status = "Em Uso"
         /\ Len(c[i].movement_history) = 1
         /\ c[i].movement_history[1].type = "Aquisição"

\* C11 (as claimed): after an import of a non-empty source of n rows with limit
\* L that meets no store failure, the collection holds exactly the first
\* min(n, L) rows, each at "Armazenagem Principal", "Em Uso", with one
\* "Aquisição" entry.
C11_ImportHoldsMinRows ==
    [][\A csv \in CsvFiles, L \in NumRegistros :
         (last' = ImportOk(csv, L) /\ csv.exists /\ Len(csv.rows) >= 1)
           => HoldsFirstRows(collection', csv.rows, MinOf(Len(csv.rows), L))]_vars

\* C11 (amended): the same for a limit L >= 1.
C11_ImportHoldsMinRowsPositiveLimit ==
    [][\A csv \in CsvFiles, L \in NumRegistros :
         (last' = ImportOk(csv, L) /\ csv.exists /\ Len(csv.rows) >= 1 /\ L >= 1)
           => HoldsFirstRows(collection', csv.rows, MinOf(Len(csv.rows), L))]_vars

C11_Witness ==
    /\ last = ImportOk(Csv(TRUE, <<RowP1, RowP2>>), 1)
    /\ Len(collection) = 1
    /\ collection[1].asset_id = "P1"
    /\ collection[1]._id > 1

\* C14: every asset's location is the to_location of the last entry of its
\* movement_history, and every entry after the first starts where the entry
\* before it ended.
C14_HistoryChainsToLocation ==
    \A i \in 1..Len(collection) :
        LET h == collection[i].movement_history
        IN  /\ "to_location" \in DOMAIN h[Len(h)]
            /\ h[Len(h)].to_location = collection[i].location
            /\ \A k \in 2..Len(h) :
                 /\ "from_location" \in DOMAIN h[k]
                 /\ "to_location" \in DOMAIN h[k - 1]
                 /\ h[k].from_location = h[k - 1].to_location

RECURSIVE SumCounts(_)
SumCounts(r) == IF r = <<>> THEN 0 ELSE r[1].count + SumCounts(Tail(r))

\* C12: the count by location returns one pair per distinct location held by
\* the collection, each with the number of documents at that location; the
\* counts add up to the size of the collection and the pairs come in
\* descending order of count, so three assets at "Laboratório 101" and one
\* at "Reitoria" give ("Laboratório 101", 3), ("Reitoria", 1)
C12_CountByLocation ==
    (last.op = "contar" /\ last.outcome = "ok") =>
        LET r == last.result
        IN  /\ Len(r) = Cardinality(LocationsOf(collection))
            /\ \A l \in LocationsOf(collection) :
                 \E i \in 1..Len(r) :
                    /\ r[i]._id = l
                    /\ r[i].count =
                         Cardinality({k \in 1..Len(collection) : collection[k].location = l})
            /\ SumCounts(r) = Len(collection)
            /\ \A i, j \in 1..Len(r) : i < j => r[i].count >= r[j].count
            /\ ( /\ Len(collection) = 4
                 /\ Len(find(collection, "Laboratório 101")) = 3
                 /\ Len(find(collection, "Reitoria")) = 1 )
               => r = << [_id |-> "Laboratório 101", count |-> 3],
                         [_id |-> "Reitoria", count |-> 1] >>

C12_Witness ==
    /\ last.op = "contar"
    /\ last.outcome = "ok"
    /\ Len(collection) = 4
    /\ last.result = << [_id |-> "Laboratório 101", count |-> 3],
                        [_id |-> "Reitoria", count |-> 1] >>

\* the manually added documents the collection still holds
RemainingManual ==
    SelectSeq(collection,
              LAMBDA d : \E k \in 1..Len(main.inserted_ids) : d._id = main.inserted_ids[k])

\* C13: the script run on a CSV file of two rows with no store call failing:
\* the collection holds 2 documents after the import, 7 after the insertion
\* of five, 7 after the edits and 5 after the two deletions; the manually
\* added asset whose status was edited from "Ativo" to "Desativado" has a
\* history of length 2 and status "Desativado"; and the search for the
\* default location of manual assets returns exactly the remaining manual
\* assets and no imported one
C13_ScriptedRun ==
    (main.clean /\ main.csv = Csv(TRUE, <<RowP1, RowP2>>)) =>
        /\ main.pc = "inserir" =>
             /\ Len(collection) = 2
             /\ {collection[i].asset_id : i \in 1..Len(collection)} = {"P1", "P2"}
        /\ main.pc \in {"editar1", "editar2"} => Len(collection) = 7
        /\ main.pc = "excluir1" =>
             /\ Len(collection) = 7
             /\ LET d == collection[IndexOfId(collection, main.inserted_ids[1])]
                IN  /\ d.status = "Desativado"
                    /\ Len(d.movement_history) = 2
                    /\ d.movement_history[2].type =
                         "Atualização de Status: Ativo para Desativado"
        /\ main.pc \in {"buscar", "contar", "fim"} =>
             /\ Len(collection) = 5
             /\ Len(RemainingManual) = 3
        /\ main.pc = "contar" =>
             /\ last.result = RemainingManual
             /\ \A i \in 1..Len(last.result) : last.result[i].asset_id \notin {"P1", "P2"}

C13_Witness ==
    /\ main.clean
    /\ main.csv = Csv(TRUE, <<RowP1, RowP2>>)
    /\ main.pc = "contar"
    /\ last.op = "buscar"
    /\ Len(last.result) = 3
    /\ Len(collection) = 5
    /\ Len(main.inserted_ids) = 5

====
